---- MODULE Spec2Model ----
(***************************************************************************)
(* Model of generate_donlon_dataset_copies.py: the collection of the       *)
(* features that belong to the EADD AirportHeliport and the generation of  *)
(* re-identified, re-positioned, re-labelled copies of that feature set.   *)
(*                                                                         *)
(* Python objects are modelled by reference: `doc` is the parsed tree (one *)
(* element per message:hasMember, the heap of original elements), and the  *)
(* dictionaries features_by_type and collected hold indices into it.       *)
(* Cloned elements are new objects and are kept by value.  Floating point  *)
(* numbers are modelled as exact rationals <<numerator, denominator>>.     *)
(* uuid.uuid4() is modelled as a generator of identifiers that were never  *)
(* handed out before.  Every gml:identifier of the source document is      *)
(* taken to be unique in the document.                                     *)
(***************************************************************************)
EXTENDS Integers, Sequences, FiniteSets, TLC

VARIABLES
    doc,                \* parsed input: sequence of feature elements (originals)
    features_by_type,   \* main: { type: { uuid: element } }
    pc,                 \* position in main() / collect_eadd_features()
    collected,          \* collect_eadd_features: { uuid: (type, element) }
    uuids,              \* collect_eadd_features: the *_uuids root sets of stages 2-10
    eadd_uuids_so_far,  \* collect_eadd_features, line 289
    eadd_navaid_uuids,  \* collect_eadd_features, line 290
    eadd_plus_navaid,   \* collect_eadd_features, line 302
    ret,                \* value returned by collect_eadd_features
    i,                  \* main: loop index of "for i in range(count)"
    all_cloned,         \* main: flat list of (type, elem) across all copies
    per_copy_cloned,    \* main: list of lists, one per copy
    uuid_maps,          \* history: the uuid_map built by each clone_feature_set call
    uuid4_count,        \* number of identifiers uuid.uuid4() has produced
    fn                  \* state of the stand-alone runs of the pure functions

mainvars == <<doc, features_by_type, pc, collected, uuids, eadd_uuids_so_far,
              eadd_navaid_uuids, eadd_plus_navaid, ret, i, all_cloned,
              per_copy_cloned, uuid_maps, uuid4_count>>
vars == <<doc, features_by_type, pc, collected, uuids, eadd_uuids_so_far,
          eadd_navaid_uuids, eadd_plus_navaid, ret, i, all_cloned,
          per_copy_cloned, uuid_maps, uuid4_count, fn>>

----------------------------------------------------------------------------
(* Bounds of the model *)

\* total number of xlink:href attributes in the modelled source document
MaxLinks == 3
\* args.count: number of copies main() generates
MaxCount == 2
\* largest copy index given to the stand-alone function runs
MaxIndex == 10
\* largest grid_cols given to the stand-alone function runs
MaxCols == 6

----------------------------------------------------------------------------
(* Constants of the program *)

EADD_UUID == "1b54b2d6-a5ff-4e57-94c2-f4047a381c64"

FEATURE_TYPES ==
    << "AirportHeliport", "Runway", "RunwayDirection", "RunwayElement",
       "RunwayCentrelinePoint", "TouchDownLiftOff", "Taxiway", "TaxiwayElement",
       "Apron", "ApronElement", "AircraftStand", "Navaid", "VOR", "DME", "NDB",
       "TACAN", "Localizer", "Glidepath", "VerticalStructure", "Airspace" >>

NAVAID_EQUIPMENT_TYPES == << "VOR", "DME", "NDB", "TACAN", "Localizer", "Glidepath" >>

AIRSPACE_DESIGNATORS ==
    << "EAR1", "EAV10", "EAP2", "EAV8", "EAD4", "EAV11", "EAD5", "EAR4" >>

VS_PROPERTIES_TO_REMOVE ==
    << "hostedPassengerService", "supportedGroundLight", "hostedSpecialNavStation",
       "hostedUnit", "hostedOrganisation", "supportedService" >>

\* argparse defaults of --grid-rows, --grid-cols and --distance-nm
GridRows == 5
GridCols == 6
DistanceNm == <<30, 1>>

----------------------------------------------------------------------------
(* Generic helpers: sequences, Python dicts (insertion ordered), strings *)

Range(s) == { s[k] : k \in DOMAIN s }

\* an empty Python dict; keys keeps the insertion order
EmptyDict == [keys |-> <<>>, val |-> <<>>]

DictHas(d, k) == k \in DOMAIN d.val

\* d[k] = v
DictSet(d, k, v) ==
    IF DictHas(d, k)
    THEN [d EXCEPT !.val = [x \in DOMAIN d.val |-> IF x = k THEN v ELSE d.val[x]]]
    ELSE [keys |-> Append(d.keys, k),
          val |-> [x \in DOMAIN d.val \cup {k} |-> IF x = k THEN v ELSE d.val[x]]]

DictKeys(d) == DOMAIN d.val

\* str.startswith
StartsWith(s, p) == Len(s) >= Len(p) /\ SubSeq(s, 1, Len(p)) = p

\* str.replace(p, ''): every occurrence of p removed, scanning left to right
RECURSIVE Remove(_, _)
Remove(s, p) ==
    IF Len(s) = 0 THEN s
    ELSE IF StartsWith(s, p) THEN Remove(SubSeq(s, Len(p) + 1, Len(s)), p)
    ELSE SubSeq(s, 1, 1) \o Remove(SubSeq(s, 2, Len(s)), p)

\* int(text) of a string of decimal digits
RECURSIVE int(_)
int(text) ==
    IF Len(text) = 0 THEN 0
    ELSE 10 * int(SubSeq(text, 1, Len(text) - 1))
         + (CHOOSE v \in 0 .. 9 :
                SubSeq("0123456789", v + 1, v + 1) = SubSeq(text, Len(text), Len(text)))

\* 'sub in s'
RECURSIVE Contains(_, _)
Contains(s, sub) ==
    IF Len(s) < Len(sub) THEN FALSE
    ELSE StartsWith(s, sub) \/ Contains(SubSeq(s, 2, Len(s)), sub)

----------------------------------------------------------------------------
(* Feature elements.                                                       *)
(*   tag         local name of the feature element (aixm:<tag>)            *)
(*   gml_id      gml:id attribute of the feature element                   *)
(*   identifier  text of gml:identifier                                    *)
(*   hrefs       the xlink:href attribute values found in the element tree *)
(*   timeSlice   tag of the first descendant whose tag contains TimeSlice, *)
(*               "" when there is none                                     *)
(*   designator, name   the aixm:designator / aixm:name child of that      *)
(*               time slice: [present, text]; text "" is an empty element  *)
(*   props       local names of the other children of the time slice       *)
(*   parts       aixm:designator of each VerticalStructurePart:            *)
(*               [present, text, nil]                                      *)
(*   pos         text of the gml:pos elements, each the sequence of its    *)
(*               whitespace-separated tokens                               *)
(*   posList     text of the gml:posList elements, likewise                *)
(*   ts_id       gml:id of that time slice                                 *)
(*   sequenceNumber, correctionNumber   the aixm:sequenceNumber and        *)
(*               aixm:correctionNumber child of that time slice            *)
(*   child_ids   gml:id of each descendant of that time slice, in document *)
(*               order: [present, text], absent when it has no gml:id      *)
(*   rest_ids    gml:id of each element of the tree after that time slice  *)
(*               that has one (a later time slice and its descendants)     *)
(***************************************************************************)

NoChild == [present |-> FALSE, text |-> ""]
Child(t) == [present |-> TRUE, text |-> t]

\* identifiers of the members of the modelled source documents; the first is
\* the hardcoded airport identifier
SourceUuids == << EADD_UUID, "uuid-a", "uuid-b", "uuid-c" >>
\* identifier of a feature that is not in the source document
ExternalUuid == "uuid-x"

\* the xlink:href values a member of the modelled documents may carry
Hrefs == { "urn:uuid:" \o u : u \in Range(SourceUuids) \cup {ExternalUuid} }
             \cup { "#uuid." \o EADD_UUID }

\* types of the four members of the modelled source documents
Layouts ==
    { << "AirportHeliport", "Runway", "RunwayDirection", "RunwayCentrelinePoint" >>,
      << "AirportHeliport", "Runway", "RunwayElement", "TouchDownLiftOff" >>,
      << "AirportHeliport", "Taxiway", "TaxiwayElement", "TouchDownLiftOff" >>,
      << "AirportHeliport", "Apron", "ApronElement", "AircraftStand" >>,
      << "AirportHeliport", "Navaid", "VOR", "DME" >>,
      << "AirportHeliport", "NDB", "Navaid", "TACAN" >>,
      << "AirportHeliport", "Navaid", "Localizer", "Glidepath" >>,
      << "AirportHeliport", "Navaid", "Navaid", "VOR" >>,
      << "AirportHeliport", "Runway", "Navaid", "VOR" >>,
      << "AirportHeliport", "VerticalStructure", "Airspace", "Navaid" >>,
      << "AirportHeliport", "VerticalStructure", "Navaid", "DME" >>,
      << "AirportHeliport", "Airspace", "Airspace", "VerticalStructure" >>,
      << "AirportHeliport", "AirportHeliport", "Runway", "Taxiway" >>,
      << "AirportHeliport", "OrganisationAuthority", "Runway", "VerticalStructure" >>,
      << "Runway", "AirportHeliport", "Runway", "Navaid" >> }

\* the designator, name, properties, parts and position the k-th member of a
\* modelled source document carries, by its type
SourceDesignator(tag, k) ==
    CASE tag = "AirportHeliport" -> Child("EADD")
      [] tag = "Airspace" -> IF k = 3 THEN Child("EAR1") ELSE Child("EAX9")
      [] tag = "Navaid" -> IF k = 2 THEN Child("BOR") ELSE NoChild
      [] tag \in Range(NAVAID_EQUIPMENT_TYPES) -> IF k = 3 THEN Child("") ELSE Child("DON")
      [] tag = "VerticalStructure" -> NoChild
      [] OTHER -> Child("09L")

SourceName(tag, k) ==
    CASE tag = "AirportHeliport" -> Child("DONLON/INTL.")
      [] tag = "VerticalStructure" -> IF k = 2 THEN Child("TOWER") ELSE Child("")
      [] tag = "Airspace" -> IF k = 3 THEN Child("DONLON R1") ELSE NoChild
      [] tag \in {"Navaid"} \cup Range(NAVAID_EQUIPMENT_TYPES) ->
            IF k = 4 THEN NoChild ELSE Child("BOORSPIJK")
      [] OTHER -> NoChild

SourceProps(tag, k) ==
    IF tag = "VerticalStructure"
    THEN {"type", "lighted", "hostedUnit", "supportedGroundLight"}
            \cup (IF k = 2 THEN {"hostedOrganisation", "supportedService"} ELSE {})
    ELSE {"type"}

SourceParts(tag, k) ==
    IF tag = "VerticalStructure"
    THEN << [present |-> TRUE, text |-> "P1", nil |-> FALSE],
            [present |-> TRUE, text |-> "", nil |-> TRUE] >>
    ELSE << >>

SourcePos(tag, k) ==
    IF tag \in {"Runway", "Taxiway", "Apron"} THEN << >>
    ELSE << << <<52, 1>>, <<-32 - k, 1>> >> >>

SourcePosList(tag, k) ==
    IF tag \in {"Airspace", "RunwayElement", "TaxiwayElement", "ApronElement"}
    THEN << << <<52, 1>>, <<-32, 1>>, <<105, 2>>, <<-32 - k, 1>> >> >>
    ELSE << >>

\* the sequence and correction number of the time slice of the k-th member
SourceSequenceNumber(tag, k) == IF k = 2 THEN Child("2") ELSE NoChild

SourceCorrectionNumber(tag, k) == IF k = 3 THEN Child("1") ELSE Child("0")

\* the descendants of the time slice: one that has no gml:id between two
\* that have
SourceChildIds(tag, k) ==
    IF tag \in {"Runway", "Taxiway", "Apron"} THEN << >>
    ELSE << Child("ep-" \o ToString(k)), NoChild, Child("pt-" \o ToString(k)) >>

\* the fourth member has a second time slice, with one identifiable child
SourceRestIds(tag, k) ==
    IF k = 4 THEN << "ts2-" \o ToString(k), "ts2-ep-" \o ToString(k) >> ELSE << >>

SourceFeature(tag, k, hrefs) ==
    [ tag        |-> tag,
      gml_id     |-> "uuid." \o SourceUuids[k],
      identifier |-> SourceUuids[k],
      hrefs      |-> hrefs,
      timeSlice  |-> tag \o "TimeSlice",
      designator |-> SourceDesignator(tag, k),
      name       |-> SourceName(tag, k),
      props      |-> SourceProps(tag, k),
      parts      |-> SourceParts(tag, k),
      pos        |-> SourcePos(tag, k),
      posList    |-> SourcePosList(tag, k),
      ts_id      |-> "ts-" \o ToString(k),
      sequenceNumber   |-> SourceSequenceNumber(tag, k),
      correctionNumber |-> SourceCorrectionNumber(tag, k),
      child_ids  |-> SourceChildIds(tag, k),
      rest_ids   |-> SourceRestIds(tag, k) ]

\* an xlink:href of the document: <<index of the member, href value>>; the
\* members after the first carry them and none references itself; every such
\* member may link to every other member, the second and third also to a
\* feature outside the document, the second also by a local "#" reference
Links == { l \in (2 .. Len(SourceUuids)) \X Hrefs :
             /\ l[2] # "urn:uuid:" \o SourceUuids[l[1]]
             /\ l[2] = "urn:uuid:" \o ExternalUuid => l[1] \in {2, 3}
             /\ l[2] = "#uuid." \o EADD_UUID => l[1] = 2 }

\* the sets of at most n links
RECURSIVE LinkSets(_)
LinkSets(n) ==
    IF n = 0 THEN { {} }
    ELSE LET P == LinkSets(n - 1)
         IN  P \cup { S \cup {e} : S \in P, e \in Links }

SourceDoc(layout, links) ==
    [ k \in 1 .. Len(SourceUuids) |->
        SourceFeature(layout[k], k, { e[2] : e \in { l \in links : l[1] = k } }) ]

----------------------------------------------------------------------------
(* Feature extraction *)

\* get_feature_uuid: "" stands for None
get_feature_uuid(feature_elem) == feature_elem.identifier

\* every href in urn:uuid: form, with the prefix removed
get_xlink_hrefs(feature_elem) ==
    { Remove(href, "urn:uuid:") :
        href \in { h \in feature_elem.hrefs : h # "" /\ StartsWith(h, "urn:uuid:") } }

\* the loop over message:hasMember, members 'from' .. Len(root) still to do
RECURSIVE extract_loop(_, _, _)
extract_loop(root, from, result) ==
    IF from > Len(root) THEN result
    ELSE LET ft == root[from].tag
             feat_uuid == get_feature_uuid(root[from])
         IN  extract_loop(root, from + 1,
                 IF ft \in Range(FEATURE_TYPES) /\ feat_uuid # ""
                 THEN [result EXCEPT ![ft] = DictSet(@, feat_uuid, from)]
                 ELSE result)

extract_features_by_type(root) ==
    extract_loop(root, 1, [ft \in Range(FEATURE_TYPES) |-> EmptyDict])

----------------------------------------------------------------------------
(* collect_eadd_features *)

\* the nested helper find_referencing, over the keys of
\* features_by_type[feat_type] that are still to be visited
RECURSIVE find_referencing_loop(_, _, _, _)
find_referencing_loop(feat_type, target_uuids, keys, found) ==
    IF keys = << >> THEN found
    ELSE LET fuuid == Head(keys)
             felem == doc[features_by_type[feat_type].val[fuuid]]
         IN  find_referencing_loop(feat_type, target_uuids, Tail(keys),
                 IF DictHas(collected, fuuid) THEN found
                 ELSE IF get_xlink_hrefs(felem) \cap target_uuids # {}
                      THEN DictSet(found, fuuid, features_by_type[feat_type].val[fuuid])
                      ELSE found)

\* find_referencing that accepts a reference to any collected feature
find_referencing_any(feat_type, target_uuids) ==
    find_referencing_loop(feat_type, DictKeys(collected),
                          features_by_type[feat_type].keys, EmptyDict)

find_referencing(feat_type, target_uuids) ==
    find_referencing_loop(feat_type, target_uuids,
                          features_by_type[feat_type].keys, EmptyDict)

\* "for u, e in found.items(): collected[u] = (feat_type, e)"
RECURSIVE add_found(_, _, _, _)
add_found(coll, feat_type, found, keys) ==
    IF keys = << >> THEN coll
    ELSE add_found(DictSet(coll, Head(keys), <<feat_type, found.val[Head(keys)]>>),
                   feat_type, found, Tail(keys))

NoUuids ==
    [ airport_uuids |-> {}, runway_uuids |-> {}, rwy_dir_uuids |-> {},
      taxiway_uuids |-> {}, apron_uuids |-> {}, apron_elem_uuids |-> {} ]

collect_frame == UNCHANGED <<doc, features_by_type, ret, i, all_cloned,
                             per_copy_cloned, uuid_maps, uuid4_count, fn>>
nav_frame == UNCHANGED <<eadd_uuids_so_far, eadd_navaid_uuids, eadd_plus_navaid>>

\* main, lines 666-671: the document is parsed and indexed by type
Extract ==
    /\ pc = "extract"
    /\ features_by_type' = extract_features_by_type(doc)
    /\ pc' = "collect"
    /\ UNCHANGED <<doc, collected, uuids, eadd_uuids_so_far, eadd_navaid_uuids,
                   eadd_plus_navaid, ret, i, all_cloned, per_copy_cloned,
                   uuid_maps, uuid4_count, fn>>

\* lines 210-216: the EADD airport; without it the empty dict is returned
CollectAirport ==
    /\ pc = "collect"
    /\ IF DictHas(features_by_type["AirportHeliport"], EADD_UUID)
       THEN /\ collected' = DictSet(EmptyDict, EADD_UUID,
                   <<"AirportHeliport", features_by_type["AirportHeliport"].val[EADD_UUID]>>)
            /\ pc' = "Runway"
            /\ ret' = ret
       ELSE /\ collected' = EmptyDict
            /\ ret' = [kind |-> "dict", len |-> Len(EmptyDict.keys)]
            /\ pc' = "unpack"
    /\ UNCHANGED <<doc, features_by_type, uuids, i, all_cloned, per_copy_cloned,
                   uuid_maps, uuid4_count, fn>>
    /\ nav_frame

\* lines 229-234
CollectRunway ==
    /\ pc = "Runway"
    /\ LET airport_uuids == {EADD_UUID}
           runways == find_referencing("Runway", airport_uuids)
       IN  /\ collected' = add_found(collected, "Runway", runways, runways.keys)
           /\ uuids' = [uuids EXCEPT !.airport_uuids = airport_uuids,
                                     !.runway_uuids = DictKeys(runways)]
    /\ pc' = "RunwayDirection"
    /\ collect_frame /\ nav_frame

\* lines 236-240
CollectRunwayDirection ==
    /\ pc = "RunwayDirection"
    /\ LET rwy_dirs == find_referencing("RunwayDirection", uuids.runway_uuids)
       IN  /\ collected' = add_found(collected, "RunwayDirection", rwy_dirs, rwy_dirs.keys)
           /\ uuids' = [uuids EXCEPT !.rwy_dir_uuids = DictKeys(rwy_dirs)]
    /\ pc' = "RunwayElement"
    /\ collect_frame /\ nav_frame

\* lines 242-245
CollectRunwayElement ==
    /\ pc = "RunwayElement"
    /\ LET rwy_elems == find_referencing("RunwayElement", uuids.runway_uuids)
       IN  collected' = add_found(collected, "RunwayElement", rwy_elems, rwy_elems.keys)
    /\ pc' = "RunwayCentrelinePoint"
    /\ UNCHANGED uuids
    /\ collect_frame /\ nav_frame

\* lines 247-250
CollectRunwayCentrelinePoint ==
    /\ pc = "RunwayCentrelinePoint"
    /\ LET rcps == find_referencing("RunwayCentrelinePoint", uuids.rwy_dir_uuids)
       IN  collected' = add_found(collected, "RunwayCentrelinePoint", rcps, rcps.keys)
    /\ pc' = "TouchDownLiftOff"
    /\ UNCHANGED uuids
    /\ collect_frame /\ nav_frame

\* lines 252-255
CollectTouchDownLiftOff ==
    /\ pc = "TouchDownLiftOff"
    /\ LET tlofs == find_referencing("TouchDownLiftOff",
                                     uuids.airport_uuids \cup uuids.runway_uuids)
       IN  collected' = add_found(collected, "TouchDownLiftOff", tlofs, tlofs.keys)
    /\ pc' = "Taxiway"
    /\ UNCHANGED uuids
    /\ collect_frame /\ nav_frame

\* lines 257-261
CollectTaxiway ==
    /\ pc = "Taxiway"
    /\ LET taxiways == find_referencing("Taxiway", uuids.airport_uuids)
       IN  /\ collected' = add_found(collected, "Taxiway", taxiways, taxiways.keys)
           /\ uuids' = [uuids EXCEPT !.taxiway_uuids = DictKeys(taxiways)]
    /\ pc' = "TaxiwayElement"
    /\ collect_frame /\ nav_frame

\* lines 263-266
CollectTaxiwayElement ==
    /\ pc = "TaxiwayElement"
    /\ LET twy_elems == find_referencing("TaxiwayElement", uuids.taxiway_uuids)
       IN  collected' = add_found(collected, "TaxiwayElement", twy_elems, twy_elems.keys)
    /\ pc' = "Apron"
    /\ UNCHANGED uuids
    /\ collect_frame /\ nav_frame

\* lines 268-272
CollectApron ==
    /\ pc = "Apron"
    /\ LET aprons == find_referencing("Apron", uuids.airport_uuids)
       IN  /\ collected' = add_found(collected, "Apron", aprons, aprons.keys)
           /\ uuids' = [uuids EXCEPT !.apron_uuids = DictKeys(aprons)]
    /\ pc' = "ApronElement"
    /\ collect_frame /\ nav_frame

\* lines 274-278
CollectApronElement ==
    /\ pc = "ApronElement"
    /\ LET apron_elems == find_referencing("ApronElement", uuids.apron_uuids)
       IN  /\ collected' = add_found(collected, "ApronElement", apron_elems,
                                     apron_elems.keys)
           /\ uuids' = [uuids EXCEPT !.apron_elem_uuids = DictKeys(apron_elems)]
    /\ pc' = "AircraftStand"
    /\ collect_frame /\ nav_frame

\* lines 280-284
CollectAircraftStand ==
    /\ pc = "AircraftStand"
    /\ LET stands == find_referencing("AircraftStand",
                                      uuids.apron_elem_uuids \cup uuids.airport_uuids)
       IN  collected' = add_found(collected, "AircraftStand", stands, stands.keys)
    /\ pc' = "Navaid"
    /\ UNCHANGED uuids
    /\ collect_frame /\ nav_frame

\* collect_all_loop that collects only the features that reference one of
\* 'related'
RECURSIVE collect_all_loop_related(_, _, _, _, _)
collect_all_loop_related(feat_type, related, keys, coll, marked) ==
    IF keys = << >> THEN [collected |-> coll, eadd_navaid_uuids |-> marked]
    ELSE LET fuuid == Head(keys)
             ref == features_by_type[feat_type].val[fuuid]
         IN  IF DictHas(coll, fuuid) \/ get_xlink_hrefs(doc[ref]) \cap related = {}
             THEN collect_all_loop_related(feat_type, related, Tail(keys), coll, marked)
             ELSE collect_all_loop_related(feat_type, related, Tail(keys),
                      DictSet(coll, fuuid, <<feat_type, ref>>),
                      marked \cup {fuuid})

\* collect_all_loop that tests the references of a feature against what is
\* collected and marked when the feature is visited
RECURSIVE collect_all_loop_live(_, _, _, _, _)
collect_all_loop_live(feat_type, related, keys, coll, marked) ==
    IF keys = << >> THEN [collected |-> coll, eadd_navaid_uuids |-> marked]
    ELSE LET fuuid == Head(keys)
             ref == features_by_type[feat_type].val[fuuid]
         IN  IF DictHas(coll, fuuid)
             THEN collect_all_loop_live(feat_type, related, Tail(keys), coll, marked)
             ELSE collect_all_loop_live(feat_type, related, Tail(keys),
                      DictSet(coll, fuuid, <<feat_type, ref>>),
                      IF get_xlink_hrefs(doc[ref]) \cap (DictKeys(coll) \cup marked) # {}
                      THEN marked \cup {fuuid} ELSE marked)

\* the loops of lines 293-298 (Navaid, tested against eadd_uuids_so_far) and of
\* lines 304-309 (one equipment type, tested against eadd_plus_navaid): every
\* feature of the type that is not yet collected is collected, and is marked
\* when it references one of 'related'
RECURSIVE collect_all_loop(_, _, _, _, _)
collect_all_loop(feat_type, related, keys, coll, marked) ==
    IF keys = << >> THEN [collected |-> coll, eadd_navaid_uuids |-> marked]
    ELSE LET fuuid == Head(keys)
             ref == features_by_type[feat_type].val[fuuid]
         IN  IF DictHas(coll, fuuid)
             THEN collect_all_loop(feat_type, related, Tail(keys), coll, marked)
             ELSE collect_all_loop(feat_type, related, Tail(keys),
                      DictSet(coll, fuuid, <<feat_type, ref>>),
                      IF get_xlink_hrefs(doc[ref]) \cap related # {}
                      THEN marked \cup {fuuid} ELSE marked)

\* lines 289-302
CollectNavaid ==
    /\ pc = "Navaid"
    /\ LET so_far == DictKeys(collected)
           r == collect_all_loop("Navaid", so_far, features_by_type["Navaid"].keys,
                                 collected, {})
       IN  /\ eadd_uuids_so_far' = so_far
           /\ collected' = r.collected
           /\ eadd_navaid_uuids' = r.eadd_navaid_uuids
           /\ eadd_plus_navaid' = so_far \cup r.eadd_navaid_uuids
    /\ pc' = NAVAID_EQUIPMENT_TYPES[1]
    /\ UNCHANGED uuids
    /\ collect_frame

\* lines 303-309, one pass of "for eq_type in NAVAID_EQUIPMENT_TYPES"
CollectEquipment(n) ==
    /\ pc = NAVAID_EQUIPMENT_TYPES[n]
    /\ LET eq_type == NAVAID_EQUIPMENT_TYPES[n]
           r == collect_all_loop(eq_type, eadd_plus_navaid,
                                 features_by_type[eq_type].keys,
                                 collected, eadd_navaid_uuids)
       IN  /\ collected' = r.collected
           /\ eadd_navaid_uuids' = r.eadd_navaid_uuids
    /\ pc' = IF n < Len(NAVAID_EQUIPMENT_TYPES)
             THEN NAVAID_EQUIPMENT_TYPES[n + 1] ELSE "top-down"
    /\ UNCHANGED <<uuids, eadd_uuids_so_far, eadd_plus_navaid>>
    /\ collect_frame

\* collect_eadd_features without the top-down pass of lines 312-318
equipment_of_eadd_navaids_none(marked) == {}

\* the top-down pass without the test of line 317: everything a marked
\* navaid references
equipment_of_eadd_navaids_any(marked) ==
    UNION { get_xlink_hrefs(doc[features_by_type["Navaid"].val[fuuid]]) :
              fuuid \in { u \in marked : DictHas(features_by_type["Navaid"], u) } }

\* lines 312-318: the equipment referenced by the navaids that were marked
\* before the loop started (the loop runs over a copy of the set)
equipment_of_eadd_navaids(marked) ==
    { ref_uuid \in UNION { get_xlink_hrefs(doc[features_by_type["Navaid"].val[fuuid]]) :
                             fuuid \in { u \in marked :
                                           DictHas(features_by_type["Navaid"], u) } } :
        \E n \in DOMAIN NAVAID_EQUIPMENT_TYPES :
            DictHas(features_by_type[NAVAID_EQUIPMENT_TYPES[n]], ref_uuid) }

CollectTopDown ==
    /\ pc = "top-down"
    /\ eadd_navaid_uuids' =
           eadd_navaid_uuids \cup equipment_of_eadd_navaids(eadd_navaid_uuids)
    /\ pc' = "VerticalStructure"
    /\ UNCHANGED <<collected, uuids, eadd_uuids_so_far, eadd_plus_navaid>>
    /\ collect_frame

\* lines 323-325
RECURSIVE collect_vs_loop(_, _)
collect_vs_loop(keys, coll) ==
    IF keys = << >> THEN coll
    ELSE collect_vs_loop(Tail(keys),
             IF DictHas(coll, Head(keys)) THEN coll
             ELSE DictSet(coll, Head(keys),
                     <<"VerticalStructure",
                       features_by_type["VerticalStructure"].val[Head(keys)]>>))

CollectVerticalStructure ==
    /\ pc = "VerticalStructure"
    /\ collected' = collect_vs_loop(features_by_type["VerticalStructure"].keys, collected)
    /\ pc' = "Airspace"
    /\ UNCHANGED uuids
    /\ collect_frame /\ nav_frame

\* airspace_selected that also takes an airspace that references the airport
airspace_selected_or_linked(felem) ==
    \/ /\ Contains(felem.timeSlice, "AirspaceTimeSlice")
       /\ felem.designator.present
       /\ felem.designator.text \in Range(AIRSPACE_DESIGNATORS)
    \/ EADD_UUID \in get_xlink_hrefs(felem)

\* lines 334-340: the designator of the AirspaceTimeSlice is one of the list
airspace_selected(felem) ==
    /\ Contains(felem.timeSlice, "AirspaceTimeSlice")
    /\ felem.designator.present
    /\ felem.designator.text \in Range(AIRSPACE_DESIGNATORS)

\* lines 330-340
RECURSIVE collect_airspace_loop(_, _)
collect_airspace_loop(keys, coll) ==
    IF keys = << >> THEN coll
    ELSE LET fuuid == Head(keys)
             ref == features_by_type["Airspace"].val[fuuid]
         IN  collect_airspace_loop(Tail(keys),
                 IF DictHas(coll, fuuid) THEN coll
                 ELSE IF airspace_selected(doc[ref])
                      THEN DictSet(coll, fuuid, <<"Airspace", ref>>)
                      ELSE coll)

\* lines 330-342: the airspaces, and the return of the pair
CollectAirspace ==
    /\ pc = "Airspace"
    /\ collected' = collect_airspace_loop(features_by_type["Airspace"].keys, collected)
    /\ ret' = [kind |-> "tuple", len |-> 2]
    /\ pc' = "unpack"
    /\ UNCHANGED <<doc, features_by_type, uuids, i, all_cloned, per_copy_cloned,
                   uuid_maps, uuid4_count, fn>>
    /\ nav_frame

\* main, line 677: "collected, eadd_navaid_uuids = collect_eadd_features(...)".
\* Unpacking into two names needs an iterable of two items; the empty dict
\* has none and raises ValueError, which nothing catches.
Unpack ==
    /\ pc = "unpack"
    /\ pc' = IF ret.len = 2 THEN "generate" ELSE "ValueError"
    /\ UNCHANGED <<doc, features_by_type, collected, uuids, ret, i, all_cloned,
                   per_copy_cloned, uuid_maps, uuid4_count, fn>>
    /\ nav_frame

----------------------------------------------------------------------------
(* Utility helpers.  A float is an exact rational <<numerator, denominator>> *)
(* with a positive denominator, kept in lowest terms; a coordinate token     *)
(* that float() rejects is a pair with denominator 0.                        *)

RECURSIVE GCD(_, _)
GCD(a, b) == IF b = 0 THEN a ELSE GCD(b, a % b)

Abs(a) == IF a < 0 THEN -a ELSE a

Rat(n, d) ==
    LET g == GCD(Abs(n), d)
    IN  IF g = 0 THEN <<n, d>> ELSE <<n \div g, d \div g>>

RMul(p, q) == Rat(p[1] * q[1], p[2] * q[2])
RAdd(p, q) == Rat(p[1] * q[2] + q[1] * p[2], p[2] * q[2])
\* p / q for q > 0
RDiv(p, q) == Rat(p[1] * q[2], p[2] * q[1])
RInt(n) == <<n, 1>>

\* f"{n}": the number without padding
Format02d_unpadded(n) == ToString(n)

\* f"{n:02d}": at least two digits, padded with zeros
Format02d(n) == IF n < 10 THEN "0" \o ToString(n) ELSE ToString(n)

\* uuid.uuid4() as a string: the n-th identifier the generator hands out
generate_new_uuid(n) == "uuid4-" \o ToString(n)

\* calculate_grid_offset with row and col exchanged
calculate_grid_offset_swapped(index, grid_cols, distance_nm) ==
    LET row == index % grid_cols
        col == index \div grid_cols
        lat_per_nm == RDiv(RInt(1), RInt(60))
        lon_per_nm == RDiv(RInt(1), RMul(RInt(60), <<6157, 10000>>))
    IN  << RMul(RMul(RInt(row), distance_nm), lat_per_nm),
           RMul(RMul(RInt(col), distance_nm), lon_per_nm) >>

calculate_grid_offset(index, grid_cols, distance_nm) ==
    LET row == index \div grid_cols
        col == index % grid_cols
        lat_per_nm == RDiv(RInt(1), RInt(60))
        lon_per_nm == RDiv(RInt(1), RMul(RInt(60), <<6157, 10000>>))
    IN  << RMul(RMul(RInt(row), distance_nm), lat_per_nm),
           RMul(RMul(RInt(col), distance_nm), lon_per_nm) >>

\* float(token) succeeds
IsFloat(token) == token[2] # 0

\* coord_str is the sequence of its whitespace-separated tokens
offset_coordinate(coord_str, lat_offset, lon_offset) ==
    IF Len(coord_str) >= 2 /\ IsFloat(coord_str[1]) /\ IsFloat(coord_str[2])
    THEN << RAdd(coord_str[1], lat_offset), RAdd(coord_str[2], lon_offset) >>
    ELSE coord_str

\* the values are taken two by two, and a value left alone at the end is
\* dropped; a pair with a token that float() rejects is kept as it is.  The
\* result is the sequence of the tokens: the line breaks the code puts between
\* them are whitespace of the text
RECURSIVE offset_pos_list(_, _, _)
offset_pos_list(values, lat_offset, lon_offset) ==
    IF Len(values) < 2 THEN << >>
    ELSE (IF IsFloat(values[1]) /\ IsFloat(values[2])
          THEN << RAdd(values[1], lat_offset), RAdd(values[2], lon_offset) >>
          ELSE << values[1], values[2] >>)
         \o offset_pos_list(SubSeq(values, 3, Len(values)), lat_offset, lon_offset)

----------------------------------------------------------------------------
(* Feature cloning *)

\* copy.deepcopy: a new element with the same content
deepcopy(orig_elem) == orig_elem

\* lines 378-381: "int(e.text) if e is not None and e.text else default"
number_or(elem, default) ==
    IF elem.present /\ elem.text # "" THEN int(elem.text) ELSE default

\* lines 387-393: the descendants of the time slice that have a gml:id get
\* prefix_1, prefix_2, ... in document order; the others are passed over
number_children(child_ids, prefix) ==
    [ n \in DOMAIN child_ids |->
        IF child_ids[n].present
        THEN Child(prefix \o "_" \o
                   ToString(Cardinality({ m \in 1 .. n : child_ids[m].present })))
        ELSE child_ids[n] ]

\* lines 359-393: only the first time slice is looked for, and what follows
\* it in the tree is not visited
update_feature_ids(feature_elem, new_uuid) ==
    LET e1 == [feature_elem EXCEPT !.gml_id = "uuid." \o new_uuid,
                                   !.identifier = new_uuid]
        seq == number_or(feature_elem.sequenceNumber, 1)
        corr == number_or(feature_elem.correctionNumber, 0)
        ts_id == "id_" \o new_uuid \o "_" \o ToString(seq) \o "_"
                     \o ToString(corr) \o "_B"
    IN  IF ~Contains(feature_elem.timeSlice, "TimeSlice") THEN e1
        ELSE [e1 EXCEPT !.ts_id = ts_id,
                        !.child_ids = number_children(@, ts_id)]

\* update_xlink_refs that rewrites no reference
update_xlink_refs_stale(feature_elem, uuid_map) == feature_elem

update_xlink_refs(feature_elem, uuid_map) ==
    [feature_elem EXCEPT !.hrefs =
        { IF href # "" /\ StartsWith(href, "urn:uuid:")
             /\ Remove(href, "urn:uuid:") \in DOMAIN uuid_map
          THEN "urn:uuid:" \o uuid_map[Remove(href, "urn:uuid:")]
          ELSE href : href \in feature_elem.hrefs }]

\* offset_all_coordinates that visits the gml:pos elements only
offset_all_coordinates_pos_only(feature_elem, lat_offset, lon_offset) ==
    [feature_elem EXCEPT !.pos =
        [ n \in DOMAIN feature_elem.pos |->
            IF feature_elem.pos[n] # << >>
            THEN offset_coordinate(feature_elem.pos[n], lat_offset, lon_offset)
            ELSE feature_elem.pos[n] ]]

\* every gml:pos and every gml:posList with text
offset_all_coordinates(feature_elem, lat_offset, lon_offset) ==
    [feature_elem EXCEPT
        !.pos =
            [ n \in DOMAIN feature_elem.pos |->
                IF feature_elem.pos[n] # << >>
                THEN offset_coordinate(feature_elem.pos[n], lat_offset, lon_offset)
                ELSE feature_elem.pos[n] ],
        !.posList =
            [ n \in DOMAIN feature_elem.posList |->
                IF feature_elem.posList[n] # << >>
                THEN offset_pos_list(feature_elem.posList[n], lat_offset, lon_offset)
                ELSE feature_elem.posList[n] ]]

navaid_types == {"Navaid"} \cup Range(NAVAID_EQUIPMENT_TYPES)

\* "if d is not None and d.text: d.text = d.text + suffix"
append_suffix(child, suffix) ==
    IF child.present /\ child.text # ""
    THEN [child EXCEPT !.text = child.text \o suffix] ELSE child

\* lines 465-480
relabel_airport(new_elem, feat_type, index) ==
    IF feat_type = "AirportHeliport"
       /\ Contains(new_elem.timeSlice, "AirportHeliportTimeSlice")
    THEN [new_elem EXCEPT
            !.designator = IF @.present
                           THEN [@ EXCEPT !.text = "E" \o Format02d(index + 1) \o "D"]
                           ELSE @,
            !.name = IF @.present
                     THEN [@ EXCEPT !.text = "DONLON INTL. " \o Format02d(index + 1)]
                     ELSE @]
    ELSE new_elem

\* lines 483-495
relabel_navaid(new_elem, feat_type, index) ==
    IF feat_type \in navaid_types /\ Contains(new_elem.timeSlice, "TimeSlice")
    THEN [new_elem EXCEPT
            !.designator = append_suffix(@, "-" \o Format02d(index + 1)),
            !.name = append_suffix(@, "-" \o Format02d(index + 1))]
    ELSE new_elem

\* lines 512-518: the designator of one VerticalStructurePart
relabel_part(pd, suffix) ==
    IF pd.present /\ pd.text # "" /\ ~pd.nil
    THEN [pd EXCEPT !.text = pd.text \o suffix] ELSE pd

\* the relabelling of a VerticalStructure that stops removing properties
\* after the first name of the list
relabel_vertical_structure_first(new_elem, feat_type, index) ==
    IF feat_type = "VerticalStructure" /\ Contains(new_elem.timeSlice, "TimeSlice")
    THEN [new_elem EXCEPT
            !.name = append_suffix(@, "-" \o Format02d(index + 1)),
            !.parts = [ n \in DOMAIN @ |->
                          relabel_part(@[n], "-" \o Format02d(index + 1)) ],
            !.props = @ \ {VS_PROPERTIES_TO_REMOVE[1]}]
    ELSE new_elem

\* lines 498-525
relabel_vertical_structure(new_elem, feat_type, index) ==
    IF feat_type = "VerticalStructure" /\ Contains(new_elem.timeSlice, "TimeSlice")
    THEN [new_elem EXCEPT
            !.name = append_suffix(@, "-" \o Format02d(index + 1)),
            !.parts = [ n \in DOMAIN @ |->
                          relabel_part(@[n], "-" \o Format02d(index + 1)) ],
            !.props = @ \ Range(VS_PROPERTIES_TO_REMOVE)]
    ELSE new_elem

\* lines 528-539
relabel_airspace(new_elem, feat_type, index) ==
    IF feat_type = "Airspace" /\ Contains(new_elem.timeSlice, "TimeSlice")
    THEN [new_elem EXCEPT
            !.designator = append_suffix(@, "-" \o Format02d(index + 1)),
            !.name = append_suffix(@, "-" \o Format02d(index + 1))]
    ELSE new_elem

\* lines 448-539, the changes made to the element named new_elem
transform(elem, old_uuid, feat_type, uuid_map, index, grid_cols, distance_nm, marked) ==
    LET offset == calculate_grid_offset(index, grid_cols, distance_nm)
        offset_nav == calculate_grid_offset(index, grid_cols,
                                            RDiv(distance_nm, RInt(10)))
        e1 == update_feature_ids(elem, uuid_map[old_uuid])
        e2 == update_xlink_refs(e1, uuid_map)
        e3 == IF feat_type \in navaid_types /\ old_uuid \notin marked
              THEN offset_all_coordinates(e2, offset_nav[1], offset_nav[2])
              ELSE offset_all_coordinates(e2, offset[1], offset[2])
        e4 == relabel_airport(e3, feat_type, index)
        e5 == relabel_navaid(e4, feat_type, index)
        e6 == relabel_vertical_structure(e5, feat_type, index)
    IN  relabel_airspace(e6, feat_type, index)

\* the pass without copy.deepcopy: new_elem is the original element itself
clone_feature_inplace(orig_elem, old_uuid, feat_type, uuid_map, index, grid_cols, distance_nm, marked) ==
    [ orig |-> transform(orig_elem, old_uuid, feat_type, uuid_map, index,
                         grid_cols, distance_nm, marked),
      new  |-> transform(orig_elem, old_uuid, feat_type, uuid_map, index,
                         grid_cols, distance_nm, marked) ]

\* One pass of the loop of lines 447-541.  new_elem is a deep copy, so the
\* original element is left as it was: orig is the original after the pass,
\* new the element appended to cloned.
clone_feature(orig_elem, old_uuid, feat_type, uuid_map, index, grid_cols, distance_nm, marked) ==
    [ orig |-> orig_elem,
      new  |-> transform(deepcopy(orig_elem), old_uuid, feat_type, uuid_map, index,
                         grid_cols, distance_nm, marked) ]

\* build_uuid_map with generate_new_uuid() called once, before the loop
build_uuid_map_once(keys, uuid_map, n) ==
    [ u \in DOMAIN uuid_map \cup Range(keys) |-> generate_new_uuid(n + 1) ]

\* lines 441-443: one new identifier per key, in the order of the dict;
\* n identifiers were generated before
RECURSIVE build_uuid_map(_, _, _)
build_uuid_map(keys, uuid_map, n) ==
    IF keys = << >> THEN uuid_map
    ELSE build_uuid_map(Tail(keys),
             [ u \in DOMAIN uuid_map \cup {Head(keys)} |->
                 IF u = Head(keys) THEN generate_new_uuid(n + 1) ELSE uuid_map[u] ],
             n + 1)

\* lines 446-541: heap is the list of original elements, cloned the result
RECURSIVE clone_loop(_, _, _, _, _, _, _, _, _)
clone_loop(keys, collected_features, uuid_map, index, grid_cols, distance_nm, marked, heap, cloned) ==
    IF keys = << >> THEN [cloned |-> cloned, heap |-> heap]
    ELSE LET old_uuid == Head(keys)
             feat_type == collected_features.val[old_uuid][1]
             ref == collected_features.val[old_uuid][2]
             r == clone_feature(heap[ref], old_uuid, feat_type, uuid_map, index,
                                grid_cols, distance_nm, marked)
         IN  clone_loop(Tail(keys), collected_features, uuid_map, index, grid_cols,
                        distance_nm, marked,
                        [heap EXCEPT ![ref] = r.orig],
                        Append(cloned, <<feat_type, r.new>>))

\* clone_feature_set whose loop leaves out the navaids and equipment that are
\* not marked as related to the airport
clone_feature_set_related(collected_features, index, grid_cols, distance_nm, marked, heap, n) ==
    LET uuid_map == build_uuid_map(collected_features.keys, << >>, n)
        keys == SelectSeq(collected_features.keys,
                    LAMBDA u : collected_features.val[u][1] \notin navaid_types
                               \/ u \in marked)
        r == clone_loop(keys, collected_features, uuid_map, index,
                        grid_cols, distance_nm, marked, heap, << >>)
    IN  [ cloned |-> r.cloned, heap |-> r.heap, uuid_map |-> uuid_map,
          new_ahp_uuid |-> uuid_map[EADD_UUID] ]

\* clone_feature_set; n is the number of identifiers generated before the call
clone_feature_set(collected_features, index, grid_cols, distance_nm, marked, heap, n) ==
    LET uuid_map == build_uuid_map(collected_features.keys, << >>, n)
        r == clone_loop(collected_features.keys, collected_features, uuid_map, index,
                        grid_cols, distance_nm, marked, heap, << >>)
    IN  [ cloned |-> r.cloned, heap |-> r.heap, uuid_map |-> uuid_map,
          new_ahp_uuid |-> uuid_map[EADD_UUID] ]

\* main, line 654: min(args.count, args.grid_rows * args.grid_cols)
count == IF MaxCount < GridRows * GridCols THEN MaxCount ELSE GridRows * GridCols

\* main, lines 702-713: one pass of "for i in range(count)"
Generate ==
    /\ pc = "generate"
    /\ i < count
    /\ LET r == clone_feature_set(collected, i, GridCols, DistanceNm,
                                  eadd_navaid_uuids, doc, uuid4_count)
       IN  /\ per_copy_cloned' = Append(per_copy_cloned, r.cloned)
           /\ all_cloned' = all_cloned \o r.cloned
           /\ doc' = r.heap
           /\ uuid_maps' = Append(uuid_maps, r.uuid_map)
           /\ uuid4_count' = uuid4_count + Len(collected.keys)
    /\ i' = i + 1
    /\ UNCHANGED <<features_by_type, pc, collected, uuids, ret, fn>>
    /\ nav_frame

\* main, lines 715-756: the loop is over and the documents are written
Finish ==
    /\ pc = "generate"
    /\ i = count
    /\ pc' = "done"
    /\ UNCHANGED <<doc, features_by_type, collected, uuids, ret, i, all_cloned,
                   per_copy_cloned, uuid_maps, uuid4_count, fn>>
    /\ nav_frame

----------------------------------------------------------------------------
(* The program *)

FnIdle == [pc |-> "idle"]

Init ==
    /\ \E layout \in Layouts, links \in LinkSets(MaxLinks) :
           doc = SourceDoc(layout, links)
    /\ features_by_type = [ft \in Range(FEATURE_TYPES) |-> EmptyDict]
    /\ pc = "extract"
    /\ collected = EmptyDict
    /\ uuids = NoUuids
    /\ eadd_uuids_so_far = {}
    /\ eadd_navaid_uuids = {}
    /\ eadd_plus_navaid = {}
    /\ ret = [kind |-> "none", len |-> 0]
    /\ i = 0
    /\ all_cloned = << >>
    /\ per_copy_cloned = << >>
    /\ uuid_maps = << >>
    /\ uuid4_count = 0
    /\ fn = FnIdle

Next ==
    \/ Extract
    \/ CollectAirport
    \/ CollectRunway
    \/ CollectRunwayDirection
    \/ CollectRunwayElement
    \/ CollectRunwayCentrelinePoint
    \/ CollectTouchDownLiftOff
    \/ CollectTaxiway
    \/ CollectTaxiwayElement
    \/ CollectApron
    \/ CollectApronElement
    \/ CollectAircraftStand
    \/ CollectNavaid
    \/ \E n \in DOMAIN NAVAID_EQUIPMENT_TYPES : CollectEquipment(n)
    \/ CollectTopDown
    \/ CollectVerticalStructure
    \/ CollectAirspace
    \/ Unpack
    \/ Generate
    \/ Finish

Spec == Init /\ [][Next]_vars

----------------------------------------------------------------------------
(* Stand-alone runs of calculate_grid_offset and of one pass of the clone   *)
(* loop, on arguments drawn from small sets.                                *)

\* values of --distance-nm
Distances == { <<30, 1>>, <<15, 2>>, <<10, 1>> }

FnTags == { "AirportHeliport", "Runway", "Navaid", "DME", "VerticalStructure",
            "Airspace" }

FnTexts == { NoChild, Child(""), Child("BOR") }

FnProps == { {"type"},
             {"type", "hostedUnit", "supportedService", "hostedPassengerService"},
             {"lighted"} \cup Range(VS_PROPERTIES_TO_REMOVE) }

\* a token that float() rejects
NotANumber == <<0, 0>>

\* what the time slice holds besides its labels: its numbers, the gml:id of
\* its descendants, the gml:id after it, and the coordinates of the feature
FnShapes ==
    { [ sequenceNumber |-> Child("12"), correctionNumber |-> Child("1"),
        child_ids |-> << Child("ep-1"), NoChild, Child("pt-1") >>,
        rest_ids |-> << >>,
        pos |-> << << <<52, 1>>, <<-32, 1>> >> >>,
        posList |-> << << <<52, 1>>, <<-32, 1>>, <<105, 2>>, <<-63, 2>> >> >> ],
      [ sequenceNumber |-> NoChild, correctionNumber |-> NoChild,
        child_ids |-> << >>,
        rest_ids |-> << >>,
        pos |-> << << <<52, 1>>, <<-32, 1>> >>, << >> >>,
        posList |-> << >> ],
      [ sequenceNumber |-> Child(""), correctionNumber |-> Child("0"),
        child_ids |-> << NoChild, Child("ep-1") >>,
        rest_ids |-> << "ts-2", "ep-2" >>,
        pos |-> << << <<52, 1>>, <<-32, 1>> >>, << <<52, 1>>, NotANumber >> >>,
        posList |-> << << <<52, 1>>, <<-32, 1>>, NotANumber, <<-63, 2>>,
                          <<53, 1>>, <<-31, 1>> >>, << >> >> ] }

\* a feature without time slice
FnNoTimeSlice ==
    [ sequenceNumber |-> NoChild, correctionNumber |-> NoChild,
      child_ids |-> << >>, rest_ids |-> << >>,
      pos |-> << << <<52, 1>>, <<-32, 1>> >> >>, posList |-> << >> ]

FnFeature(tag, timeSlice, designator, name, props, shape) ==
    [ tag        |-> tag,
      gml_id     |-> "uuid." \o SourceUuids[2],
      identifier |-> SourceUuids[2],
      hrefs      |-> { "urn:uuid:" \o SourceUuids[2], "urn:uuid:" \o ExternalUuid },
      timeSlice  |-> timeSlice,
      designator |-> designator,
      name       |-> name,
      props      |-> props,
      parts      |-> IF timeSlice = "" THEN << >> ELSE SourceParts(tag, 2),
      pos        |-> shape.pos,
      posList    |-> shape.posList,
      ts_id      |-> IF timeSlice = "" THEN "" ELSE "ts-1",
      sequenceNumber   |-> shape.sequenceNumber,
      correctionNumber |-> shape.correctionNumber,
      child_ids  |-> shape.child_ids,
      rest_ids   |-> shape.rest_ids ]

\* a feature without a time slice has none of the children of a time slice
FnFeatures ==
    { FnFeature(tag, tag \o "TimeSlice", d, n, p, shape) :
        tag \in FnTags, d \in FnTexts, n \in FnTexts, p \in FnProps,
        shape \in FnShapes }
    \cup { FnFeature(tag, "", NoChild, NoChild, {}, FnNoTimeSlice) : tag \in FnTags }

InitFn ==
    /\ doc = << >>
    /\ features_by_type = [ft \in Range(FEATURE_TYPES) |-> EmptyDict]
    /\ pc = "idle"
    /\ collected = EmptyDict
    /\ uuids = NoUuids
    /\ eadd_uuids_so_far = {}
    /\ eadd_navaid_uuids = {}
    /\ eadd_plus_navaid = {}
    /\ ret = [kind |-> "none", len |-> 0]
    /\ i = 0
    /\ all_cloned = << >>
    /\ per_copy_cloned = << >>
    /\ uuid_maps = << >>
    /\ uuid4_count = 0
    /\ \/ \E index \in 0 .. MaxIndex, grid_cols \in 1 .. MaxCols,
             distance_nm \in Distances :
             fn = [ pc |-> "offset", index |-> index, grid_cols |-> grid_cols,
                    distance_nm |-> distance_nm ]
       \/ \E index \in 0 .. MaxIndex, feature \in FnFeatures, marked \in BOOLEAN :
             fn = [ pc |-> "clone", index |-> index, grid_cols |-> GridCols,
                    distance_nm |-> DistanceNm, feature |-> feature,
                    marked |-> IF marked THEN {feature.identifier} ELSE {} ]

\* calculate_grid_offset(index, grid_cols, distance_nm)
FnOffset ==
    /\ fn.pc = "offset"
    /\ fn' = [ pc |-> "offset-done", index |-> fn.index, grid_cols |-> fn.grid_cols,
               distance_nm |-> fn.distance_nm,
               offset |-> calculate_grid_offset(fn.index, fn.grid_cols,
                                                fn.distance_nm) ]
    /\ UNCHANGED mainvars

\* one pass of the clone loop on fn.feature, with a uuid_map of its identifier
FnClone ==
    /\ fn.pc = "clone"
    /\ LET uuid_map == build_uuid_map(<< fn.feature.identifier >>, << >>, 0)
           r == clone_feature(fn.feature, fn.feature.identifier, fn.feature.tag,
                              uuid_map, fn.index, fn.grid_cols, fn.distance_nm,
                              fn.marked)
       IN  fn' = [ pc |-> "clone-done", index |-> fn.index,
                   grid_cols |-> fn.grid_cols, distance_nm |-> fn.distance_nm,
                   feature |-> fn.feature, marked |-> fn.marked,
                   uuid_map |-> uuid_map, orig |-> r.orig, new |-> r.new ]
    /\ UNCHANGED mainvars

NextFn == FnOffset \/ FnClone

SpecFn == InitFn /\ [][NextFn]_vars

----------------------------------------------------------------------------
(* Vocabulary of the properties *)

\* the positions of main() and collect_eadd_features(), in program order
PcOrder ==
    << "extract", "collect", "Runway", "RunwayDirection", "RunwayElement",
       "RunwayCentrelinePoint", "TouchDownLiftOff", "Taxiway", "TaxiwayElement",
       "Apron", "ApronElement", "AircraftStand", "Navaid", "VOR", "DME", "NDB",
       "TACAN", "Localizer", "Glidepath", "top-down", "VerticalStructure",
       "Airspace", "unpack", "generate", "done" >>

PcIndex(p) == IF \E n \in DOMAIN PcOrder : PcOrder[n] = p
              THEN CHOOSE n \in DOMAIN PcOrder : PcOrder[n] = p
              ELSE 0

\* the airport was found, and the step at position p has been taken
Passed(p) == DictHas(collected, EADD_UUID) /\ PcIndex(pc) > PcIndex(p)

\* collect_eadd_features has returned the BelongingSet and the LocallyRelevant set
Collected == Passed("Airspace")

BelongingSet == DictKeys(collected)

\* the original element of a member of the BelongingSet
Original(u) == doc[collected.val[u][2]]

\* the urn:uuid: link targets of an element
LinkTargets(elem) ==
    { Remove(h, "urn:uuid:") : h \in { g \in elem.hrefs : StartsWith(g, "urn:uuid:") } }

\* the identifiers generated for clone instance c (c = index + 1)
Generated(c) == Range(uuid_maps[c])

\* the identifiers of a catalog type
Catalog(ft) == DictKeys(features_by_type[ft])

EquipmentUuids == UNION { Catalog(ft) : ft \in Range(NAVAID_EQUIPMENT_TYPES) }

----------------------------------------------------------------------------
(* Properties *)

\* C1: in every cloned record of clone instance c, every urn:uuid link target
\* is a value of the uuid_map of instance c or an identifier outside the
\* BelongingSet: it is never an original identifier of the BelongingSet and
\* never an identifier generated for another instance; a link of the original
\* whose target is outside the BelongingSet is in the clone verbatim, and a
\* link to a member is replaced by the link to that member's new identifier.
C1_LinksStayInsideInstance ==
    \A c \in DOMAIN per_copy_cloned :
        \A k \in DOMAIN per_copy_cloned[c] :
            LET clone == per_copy_cloned[c][k][2]
            IN  /\ \A t \in LinkTargets(clone) :
                      /\ t \in Generated(c) \/ t \notin BelongingSet
                      /\ t \notin BelongingSet
                      /\ \A o \in DOMAIN uuid_maps : o # c => t \notin Generated(o)
                /\ k <= Len(collected.keys) =>
                      \A h \in Original(collected.keys[k]).hrefs :
                          IF StartsWith(h, "urn:uuid:")
                             /\ Remove(h, "urn:uuid:") \in BelongingSet
                          THEN "urn:uuid:" \o uuid_maps[c][Remove(h, "urn:uuid:")]
                                   \in clone.hrefs
                          ELSE h \in clone.hrefs

\* two instances exist; a clone of the second holds a rewritten link to a
\* member, a link to a feature that is not in the document and a link to a
\* feature of the document that is outside the BelongingSet
C1_Witness ==
    /\ Len(per_copy_cloned) = 2
    /\ \E k \in DOMAIN per_copy_cloned[2] :
          LET clone == per_copy_cloned[2][k][2]
          IN  /\ LinkTargets(clone) \cap Generated(2) # {}
              /\ "urn:uuid:" \o ExternalUuid \in clone.hrefs
              /\ \E u \in Range(SourceUuids) \ BelongingSet :
                    "urn:uuid:" \o u \in clone.hrefs

\* C2: when the airport identifier is not in features_by_type['AirportHeliport'],
\* the run raises no error, and it ends with zero cloned records.
C2_LookupMissIsNotFatal ==
    (pc # "extract" /\ ~DictHas(features_by_type["AirportHeliport"], EADD_UUID))
        => /\ pc # "ValueError"
           /\ pc = "done" => all_cloned = << >>

\* C3: the uuid_map of every clone instance is a bijection from the key set of
\* the BelongingSet onto identifiers that uuid4 generated for it: none is an
\* identifier of the source document, and no two instances share a value.
C3_UuidMapIsFreshBijection ==
    \A c \in DOMAIN uuid_maps :
        /\ DOMAIN uuid_maps[c] = BelongingSet
        /\ \A u, v \in BelongingSet : u # v => uuid_maps[c][u] # uuid_maps[c][v]
        /\ Cardinality(Generated(c)) = Cardinality(BelongingSet)
        /\ Generated(c) \cap BelongingSet = {}
        /\ Generated(c) \cap (Range(SourceUuids) \cup {ExternalUuid}) = {}
        /\ \A o \in DOMAIN uuid_maps : o # c => Generated(o) \cap Generated(c) = {}

\* two instances over a BelongingSet of at least three features
C3_Witness ==
    /\ Len(uuid_maps) = 2
    /\ Cardinality(BelongingSet) >= 3
    /\ Cardinality(Generated(1) \cup Generated(2)) = 2 * Cardinality(BelongingSet)

\* C4: every clone instance holds one cloned record per member of the
\* BelongingSet, in the order of the BelongingSet, each with the type of its
\* original and the new identifier of its original; the concatenation of n
\* instances holds n * |BelongingSet| records.
C4_OneClonePerMember ==
    /\ \A c \in DOMAIN per_copy_cloned :
          /\ Len(per_copy_cloned[c]) = Cardinality(BelongingSet)
          /\ Len(per_copy_cloned[c]) = Len(collected.keys)
          /\ \A k \in DOMAIN per_copy_cloned[c] :
                /\ per_copy_cloned[c][k][1] = collected.val[collected.keys[k]][1]
                /\ per_copy_cloned[c][k][2].identifier = uuid_maps[c][collected.keys[k]]
    /\ Len(all_cloned) = Len(per_copy_cloned) * Cardinality(BelongingSet)
    /\ Len(per_copy_cloned) = i

\* two instances of a BelongingSet of four features
C4_Witness ==
    /\ Len(per_copy_cloned) = 2
    /\ Cardinality(BelongingSet) = 4
    /\ Len(all_cloned) = 8

\* the link-traversal stages of collect_eadd_features, in program order
Stages ==
    << [target |-> "Runway",                roots |-> {"AirportHeliport"}],
       [target |-> "RunwayDirection",       roots |-> {"Runway"}],
       [target |-> "RunwayElement",         roots |-> {"Runway"}],
       [target |-> "RunwayCentrelinePoint", roots |-> {"RunwayDirection"}],
       [target |-> "TouchDownLiftOff",      roots |-> {"AirportHeliport", "Runway"}],
       [target |-> "Taxiway",               roots |-> {"AirportHeliport"}],
       [target |-> "TaxiwayElement",        roots |-> {"Taxiway"}],
       [target |-> "Apron",                 roots |-> {"AirportHeliport"}],
       [target |-> "ApronElement",          roots |-> {"Apron"}],
       [target |-> "AircraftStand",         roots |-> {"ApronElement", "AirportHeliport"}] >>

\* the members of the BelongingSet collected under one of the types
CollectedAs(types) == { u \in BelongingSet : collected.val[u][1] \in types }

\* the element features_by_type holds for identifier u of type ft
CatalogElem(ft, u) == doc[features_by_type[ft].val[u]]

\* C5: once a link-traversal stage has run, a catalog record of its target
\* type is in the BelongingSet (under that type) if and only if its links
\* reach a collected identifier of the stage's root types; before the stage
\* runs no record of its target type is collected.
C5_StageCollectsReferencing ==
    \A n \in DOMAIN Stages :
        IF Passed(Stages[n].target)
        THEN \A u \in Catalog(Stages[n].target) :
                 (u \in CollectedAs({Stages[n].target}))
                     <=> (LinkTargets(CatalogElem(Stages[n].target, u))
                             \cap CollectedAs(Stages[n].roots) # {})
        ELSE CollectedAs({Stages[n].target}) = {}

\* all stages have run: a runway that links only to an AirportHeliport that is
\* not collected is left out, a taxiway that links to the airport is collected
C5_Witness ==
    /\ Passed("AircraftStand")
    /\ \E r \in Catalog("Runway") \ BelongingSet :
          /\ LinkTargets(CatalogElem("Runway", r)) # {}
          /\ LinkTargets(CatalogElem("Runway", r))
                 \subseteq Catalog("AirportHeliport") \ BelongingSet
    /\ Catalog("Taxiway") \cap BelongingSet # {}

\* C6: once the top-down pass has run, every navigation-equipment record that
\* a marked Navaid links to is marked.
C6_EquipmentOfMarkedNavaidIsMarked ==
    Passed("top-down") =>
        \A a \in Catalog("Navaid") \cap eadd_navaid_uuids :
            LinkTargets(CatalogElem("Navaid", a)) \cap EquipmentUuids
                \subseteq eadd_navaid_uuids

\* collect has returned: an equipment record without any link, placed before
\* the navaid in the document, is marked because a marked Navaid links to it
C6_Witness ==
    /\ Collected
    /\ \E a \in Catalog("Navaid") \cap eadd_navaid_uuids, e \in EquipmentUuids :
          /\ e \in LinkTargets(CatalogElem("Navaid", a))
          /\ Original(e).hrefs = {}
          /\ collected.val[e][2] < collected.val[a][2]
          /\ e \in eadd_navaid_uuids

\* C8: a pass of the clone loop of main leaves the parsed document, the
\* catalog, the BelongingSet and the marked set as they were, leaves the
\* copies made before as they were, and the copy it adds is the copy of the
\* unmodified originals under its own uuid_map.
C8_CloneLeavesInputsAlone ==
    [][ pc = "generate" =>
          /\ doc' = doc
          /\ features_by_type' = features_by_type
          /\ collected' = collected
          /\ eadd_navaid_uuids' = eadd_navaid_uuids
          /\ \A c \in DOMAIN per_copy_cloned : per_copy_cloned'[c] = per_copy_cloned[c]
          /\ \A c \in DOMAIN per_copy_cloned' :
                per_copy_cloned'[c] =
                    clone_loop(collected.keys, collected, uuid_maps'[c], c - 1,
                               GridCols, DistanceNm, eadd_navaid_uuids, doc,
                               << >>).cloned ]_vars

\* two copies were made of a BelongingSet with a relabelled member whose
\* original still carries its own identifier and designator
C8_Witness ==
    /\ Len(per_copy_cloned) = 2
    /\ \E k \in DOMAIN per_copy_cloned[2] :
          /\ k <= Len(collected.keys)
          /\ per_copy_cloned[2][k][2].designator
                 # per_copy_cloned[1][k][2].designator
          /\ Original(collected.keys[k]).identifier = collected.keys[k]
          /\ Original(collected.keys[k]).designator
                 # per_copy_cloned[1][k][2].designator

\* C7: no clone of a VerticalStructure has one of VS_PROPERTIES_TO_REMOVE in
\* its time slice, its other properties are kept, and the original still has
\* every property the source document gave it.
C7_ObstacleRelationsRemoved ==
    \A c \in DOMAIN per_copy_cloned :
        \A k \in DOMAIN per_copy_cloned[c] :
            per_copy_cloned[c][k][1] = "VerticalStructure" =>
                LET clone == per_copy_cloned[c][k][2]
                    ref == collected.val[collected.keys[k]][2]
                IN  /\ \A n \in DOMAIN VS_PROPERTIES_TO_REMOVE :
                          VS_PROPERTIES_TO_REMOVE[n] \notin clone.props
                    /\ clone.props = SourceProps("VerticalStructure", ref)
                                         \ Range(VS_PROPERTIES_TO_REMOVE)
                    /\ doc[ref].props = SourceProps("VerticalStructure", ref)

\* two copies of a VerticalStructure whose original has four of the listed
\* properties: the copies have none, the original still has the four
C7_Witness ==
    /\ Len(per_copy_cloned) = 2
    /\ \E k \in DOMAIN per_copy_cloned[2] :
          /\ per_copy_cloned[2][k][1] = "VerticalStructure"
          /\ per_copy_cloned[2][k][2].props = {"type", "lighted"}
          /\ Cardinality(Original(collected.keys[k]).props
                             \cap Range(VS_PROPERTIES_TO_REMOVE)) = 4

Digits == << "0", "1", "2", "3", "4", "5", "6", "7", "8", "9" >>

\* the two decimal digits of a number below 100
TwoDigits(n) == Digits[(n \div 10) + 1] \o Digits[(n % 10) + 1]

\* a label with text gets the suffix, a label without text or an absent label
\* is left as it is
Suffixed(before, after, suffix) ==
    IF before.present /\ before.text # ""
    THEN after = Child(before.text \o suffix)
    ELSE after = before

\* C9: in the clone made for index n, with NN the two digits of n + 1: the
\* designator of the AirportHeliport is "E" NN "D" (E01D for index 0, E10D for
\* index 9); the designator and name of a Navaid, of navigation equipment and
\* of an Airspace, and the name and the part designators of a
\* VerticalStructure, end with "-" NN after their original text; a record
\* without designator or name is cloned with that label still absent.
C9_DesignatorAndSuffix ==
    fn.pc = "clone-done" =>
        LET f == fn.feature
            c == fn.new
            NN == TwoDigits(fn.index + 1)
        IN  /\ c.identifier = fn.uuid_map[f.identifier]
            /\ (f.tag = "AirportHeliport" /\ f.timeSlice # "" /\ f.designator.present)
                  => /\ c.designator = Child("E" \o NN \o "D")
                     /\ fn.index = 0 => c.designator.text = "E01D"
                     /\ fn.index = 9 => c.designator.text = "E10D"
            /\ f.tag \in navaid_types \cup {"Airspace"}
                  => /\ Suffixed(f.designator, c.designator, "-" \o NN)
                     /\ Suffixed(f.name, c.name, "-" \o NN)
            /\ f.tag = "VerticalStructure"
                  => /\ Suffixed(f.name, c.name, "-" \o NN)
                     /\ Len(c.parts) = Len(f.parts)
                     /\ \A n \in DOMAIN f.parts :
                           IF f.parts[n].present /\ f.parts[n].text # "" /\ ~f.parts[n].nil
                           THEN c.parts[n].text = f.parts[n].text \o "-" \o NN
                           ELSE c.parts[n] = f.parts[n]
            /\ ~f.designator.present => ~c.designator.present
            /\ ~f.name.present => ~c.name.present

\* the AirportHeliport cloned for index 9 is E10D; it has no name, and none
\* is added
C9_Witness ==
    /\ fn.pc = "clone-done"
    /\ fn.index = 9
    /\ fn.feature.tag = "AirportHeliport"
    /\ fn.feature.designator = Child("BOR")
    /\ fn.new.designator = Child("E10D")
    /\ ~fn.feature.name.present
    /\ ~fn.new.name.present

\* a non-negative rational in units of 1/10000, rounded to the nearest
Round4(q) == (2 * 10000 * q[1] + q[2]) \div (2 * q[2])

\* the statement about calculate_grid_offset, with the value of lonOffset for
\* index=7, columns=6, distanceUnit=30 in units of 1/10000
GridOffsetStatement(lon4) ==
    /\ fn.pc = "offset-done" =>
          LET row == fn.index \div fn.grid_cols
              col == fn.index % fn.grid_cols
              d == fn.distance_nm
          IN  /\ fn.offset[1] = Rat(row * d[1], 60 * d[2])
              /\ fn.offset[2] = Rat(col * d[1] * 10000, 60 * 6157 * d[2])
              /\ (fn.index = 7 /\ fn.grid_cols = 6 /\ d = <<30, 1>>)
                    => /\ row = 1 /\ col = 1
                       /\ fn.offset[1] = <<1, 2>>
                       /\ Round4(fn.offset[2]) = lon4
    /\ (fn.pc = "clone-done" /\ fn.feature.tag \in navaid_types
            /\ fn.feature.identifier \notin fn.marked) =>
          LET row == fn.index \div fn.grid_cols
              col == fn.index % fn.grid_cols
              d == fn.distance_nm
          IN  fn.new.pos[1] =
                  << RAdd(fn.feature.pos[1][1], Rat(row * d[1], 60 * 10 * d[2])),
                     RAdd(fn.feature.pos[1][2],
                          Rat(col * d[1] * 10000, 60 * 6157 * 10 * d[2])) >>

\* C10 (as amended): calculate_grid_offset uses row = index div columns and
\* col = index mod columns, latOffset = row * distance / 60 and
\* lonOffset = col * distance / (60 * 0.6157); for index=7, columns=6,
\* distance=30 this gives row=1, col=1, latOffset = 0.5 and lonOffset = 0.8121
\* to four decimals; the coordinates of a navaid or equipment clone that is not
\* marked are shifted by the same function applied to distance / 10.
C10_GridOffset == GridOffsetStatement(8121)

\* C10 (as claimed): the same, with lonOffset = 0.8123 to four decimals
C10_GridOffsetAsClaimed == GridOffsetStatement(8123)

\* calculate_grid_offset(7, 6, 30) has been computed
C10_Witness ==
    /\ fn.pc = "offset-done"
    /\ fn.index = 7 /\ fn.grid_cols = 6 /\ fn.distance_nm = <<30, 1>>
    /\ fn.offset[1] = <<1, 2>>

\* C11: when the airport is in the catalog, the BelongingSet that
\* collect_eadd_features returns holds every Navaid, every VOR, DME, NDB, TACAN,
\* Localizer and Glidepath and every VerticalStructure of the catalog, each
\* under its own type, whether or not it links to a collected record; each is
\* in the BelongingSet as soon as the stage of its type has run.
C11_GlobalTypesCollectedInFull ==
    /\ Collected =>
          \A ft \in navaid_types \cup {"VerticalStructure"} :
              \A u \in Catalog(ft) :
                  u \in BelongingSet /\ collected.val[u][1] = ft
    /\ \A ft \in navaid_types \cup {"VerticalStructure"} :
          Passed(ft) => Catalog(ft) \subseteq BelongingSet

\* collect has returned a BelongingSet with a Navaid, a DME and a
\* VerticalStructure none of which has any link
C11_Witness ==
    /\ Collected
    /\ \E a \in Catalog("Navaid"), e \in Catalog("DME"),
          v \in Catalog("VerticalStructure") :
          /\ {a, e, v} \subseteq BelongingSet
          /\ Original(a).hrefs = {} /\ Original(e).hrefs = {} /\ Original(v).hrefs = {}

\* the coordinate pair made of tokens a and b, moved by <<lat, lon>>; a pair
\* with a token that is not a number is not a coordinate and stays as it is
Moved(a, b, lat, lon) ==
    IF a[2] # 0 /\ b[2] # 0 THEN << RAdd(a, lat), RAdd(b, lon) >> ELSE << a, b >>

\* the text 'after' holds the pairs of the text 'before', each moved once
MovedOnce(before, after, lat, lon) ==
    /\ Len(after) = Len(before)
    /\ \A m \in 1 .. (Len(before) \div 2) :
          << after[2 * m - 1], after[2 * m] >>
              = Moved(before[2 * m - 1], before[2 * m], lat, lon)

\* C12: the coordinates of a clone are those of its original moved by the
\* offset of distance / 10 when the type of the record is Navaid or navigation
\* equipment and its original identifier is not in eadd_navaid_uuids, and by
\* the offset of distance otherwise (also for a marked Navaid or equipment, a
\* VerticalStructure and an Airspace); every pair of every gml:pos and of every
\* gml:posList is moved, once.
C12_OffsetByTypeAndRelevance ==
    fn.pc = "clone-done" =>
        LET f == fn.feature
            c == fn.new
            row == fn.index \div fn.grid_cols
            col == fn.index % fn.grid_cols
            d == fn.distance_nm
            reduced == f.tag \in navaid_types /\ f.identifier \notin fn.marked
            lat == IF reduced THEN Rat(row * d[1], 60 * 10 * d[2])
                   ELSE Rat(row * d[1], 60 * d[2])
            lon == IF reduced THEN Rat(col * d[1] * 10000, 60 * 6157 * 10 * d[2])
                   ELSE Rat(col * d[1] * 10000, 60 * 6157 * d[2])
        IN  /\ Len(c.pos) = Len(f.pos)
            /\ \A n \in DOMAIN f.pos : MovedOnce(f.pos[n], c.pos[n], lat, lon)
            /\ Len(c.posList) = Len(f.posList)
            /\ \A n \in DOMAIN f.posList :
                  MovedOnce(f.posList[n], c.posList[n], lat, lon)

\* the clone made for index 7 (row 1, column 1) of a DME that is not marked:
\* its gml:pos and the second pair of its gml:posList are moved by 1/20 degree
\* of latitude, not by the 1/2 degree of the primary offset
C12_Witness ==
    /\ fn.pc = "clone-done"
    /\ fn.index = 7
    /\ fn.feature.tag = "DME"
    /\ fn.marked = {}
    /\ fn.feature.posList # << >>
    /\ fn.feature.posList[1][3] = <<105, 2>>
    /\ fn.new.posList[1][3] = <<1051, 20>>
    /\ fn.new.pos[1][1] = RAdd(fn.feature.pos[1][1], <<1, 20>>)
    /\ fn.new.pos[1][1] # RAdd(fn.feature.pos[1][1], <<1, 2>>)

\* the bottom-up pass has visited the equipment of type ft, and the top-down
\* pass has not run yet
VisitedBottomUp(ft) == Passed(ft) /\ ~Passed("top-down")

\* the keys the BelongingSet had when record u was added to it
CollectedBefore(u) ==
    { collected.keys[n] :
        n \in { m \in DOMAIN collected.keys :
                  \E l \in DOMAIN collected.keys : l > m /\ collected.keys[l] = u } }

\* the identifiers that were marked when record u was visited by the
\* bottom-up pass: a record is marked when it is visited
TaggedBefore(u) == eadd_navaid_uuids \cap CollectedBefore(u)

\* the types collected by the link-traversal stages, before line 289
AirportStructureTypes == {"AirportHeliport"} \cup { Stages[n].target : n \in DOMAIN Stages }

\* C13 (as claimed): an equipment record visited by the bottom-up pass is
\* marked when its links reach an identifier that was collected or marked at
\* the moment the record was visited.
C13_TaggedAgainstSetsAtVisit ==
    \A ft \in Range(NAVAID_EQUIPMENT_TYPES) :
        VisitedBottomUp(ft) =>
            \A e \in Catalog(ft) :
                LinkTargets(CatalogElem(ft, e))
                        \cap (CollectedBefore(e) \cup TaggedBefore(e)) # {}
                    => e \in eadd_navaid_uuids

\* C13 (as amended): an equipment record visited by the bottom-up pass is
\* marked if and only if its links reach an identifier of the set that is
\* fixed before the pass starts: the identifiers collected by the
\* link-traversal stages (the airport and its structure) and the Navaids
\* marked by the Navaid stage.  A link to equipment marked earlier in the pass,
\* or to a Navaid that is collected but not marked, does not mark the record.
C13_TaggedAgainstSetFixedBeforePass ==
    \A ft \in Range(NAVAID_EQUIPMENT_TYPES) :
        VisitedBottomUp(ft) =>
            \A e \in Catalog(ft) :
                (e \in eadd_navaid_uuids)
                    <=> (LinkTargets(CatalogElem(ft, e))
                            \cap (CollectedAs(AirportStructureTypes)
                                    \cup (eadd_navaid_uuids \cap Catalog("Navaid"))) # {})

\* the bottom-up pass is over: a VOR that links to a marked Navaid is marked,
\* and the DME visited after it, whose only link is to that VOR, is not
C13_Witness ==
    /\ pc = "top-down"
    /\ DictHas(collected, EADD_UUID)
    /\ \E a \in Catalog("Navaid"), v \in Catalog("VOR"), e \in Catalog("DME") :
          /\ a \in eadd_navaid_uuids
          /\ a \in LinkTargets(CatalogElem("VOR", v))
          /\ v \in eadd_navaid_uuids
          /\ LinkTargets(CatalogElem("DME", e)) = {v}
          /\ v \in TaggedBefore(e)
          /\ e \notin eadd_navaid_uuids

\* C14: once the Airspace stage has run, an Airspace of the catalog is in the
\* BelongingSet if and only if the designator of its time slice is one of
\* EAR1, EAV10, EAP2, EAV8, EAD4, EAV11, EAD5, EAR4, whatever its links are;
\* before the stage no Airspace is collected.
C14_AirspaceByDesignator ==
    IF Passed("Airspace")
    THEN \A u \in Catalog("Airspace") :
             (u \in BelongingSet)
                 <=> /\ CatalogElem("Airspace", u).designator.present
                     /\ CatalogElem("Airspace", u).designator.text
                            \in { "EAR1", "EAV10", "EAP2", "EAV8", "EAD4", "EAV11",
                                  "EAD5", "EAR4" }
    ELSE CollectedAs({"Airspace"}) = {}

\* collect has returned: an Airspace that links to the airport and has the
\* designator EAX9 is left out, an Airspace EAR1 without any link is in
C14_Witness ==
    /\ Collected
    /\ \E a \in Catalog("Airspace") \ BelongingSet :
          /\ EADD_UUID \in LinkTargets(CatalogElem("Airspace", a))
          /\ CatalogElem("Airspace", a).designator = Child("EAX9")
    /\ \E b \in Catalog("Airspace") \cap BelongingSet :
          /\ CatalogElem("Airspace", b).hrefs = {}
          /\ CatalogElem("Airspace", b).designator = Child("EAR1")

\* the gml:id values an element carries: its own, that of its first time
\* slice and of the descendants of that time slice, and those after it
SelfIds(elem) ==
    {elem.gml_id}
        \cup (IF elem.timeSlice = "" THEN {} ELSE {elem.ts_id})
        \cup { elem.child_ids[n].text :
                 n \in { m \in DOMAIN elem.child_ids : elem.child_ids[m].present } }
        \cup Range(elem.rest_ids)

\* the text of a number that is written without leading zeros, or the default
\* when the element is absent or empty
NumberText(elem, default) ==
    IF elem.present /\ elem.text # "" THEN elem.text ELSE default

HasId(child) == child.present

\* the identifiers update_feature_ids is documented to assign: the new
\* identifier to the record, id_<new>_<seq>_<corr>_B to the time slice, with
\* seq 1 and corr 0 when absent, and that identifier followed by _1, _2, ...,
\* _k to the k descendants of the time slice that have a gml:id
IdsAsDerived(f, c, newId) ==
    LET tsId == "id_" \o newId \o "_" \o NumberText(f.sequenceNumber, "1")
                    \o "_" \o NumberText(f.correctionNumber, "0") \o "_B"
        k == Len(SelectSeq(f.child_ids, HasId))
    IN  /\ c.identifier = newId
        /\ c.gml_id = "uuid." \o newId
        /\ f.timeSlice # "" =>
              /\ c.ts_id = tsId
              /\ Len(c.child_ids) = Len(f.child_ids)
              /\ \A n \in DOMAIN f.child_ids :
                    c.child_ids[n].present = f.child_ids[n].present
              /\ SelectSeq(c.child_ids, HasId)
                    = [ n \in 1 .. k |-> Child(tsId \o "_" \o ToString(n)) ]

\* C15: in the clone of a record, the identifier and gml:id are the new
\* identifier of its original, the gml:id of the time slice is derived from the
\* new identifier, the sequence number (1 when absent) and the correction
\* number (0 when absent), the identifiable descendants of that time slice are
\* numbered 1, 2, ..., k in document order, and no gml:id or identifier of the
\* original remains in the clone.
C15_SelfIdentifiersReplaced ==
    fn.pc = "clone-done" =>
        /\ IdsAsDerived(fn.feature, fn.new, fn.uuid_map[fn.feature.identifier])
        /\ fn.new.identifier # fn.feature.identifier
        /\ SelfIds(fn.new) \cap SelfIds(fn.feature) = {}

====
